---- MODULE Spec2Model ----
(***************************************************************************)
(* Model of github.com/longkai/encoding: package form (decode.go), which   *)
(* binds HTTP form values and uploaded file parts to the fields of a Go    *)
(* struct, and package reqconv, whose Unmarshal picks the binding by the   *)
(* request's method and Content-Type.                                      *)
(*                                                                         *)
(* Go strings are sequences of one-character strings, so that parsing and  *)
(* case conversion are computed and not assumed.  A url.Values map is a    *)
(* function from keys to non-empty sequences of values.  An error is the   *)
(* sequence of the frames fmt.Errorf stacked, outermost first; the nil     *)
(* error is the empty sequence.  A character outside ASCII is the bytes of  *)
(* its UTF-8 encoding, each written "0x..".                                *)
(*                                                                         *)
(* invalidByte is what the Go library of the build makes of a byte that is *)
(* no valid UTF-8 when strings.ToLower maps it: strings.Map replaces it by *)
(* U+FFFD in newer releases and keeps it in older ones.                    *)
(***************************************************************************)
EXTENDS Integers, Sequences, FiniteSets, TLC

VARIABLES FieldTag, typ, r0, pre, option, r, ptr, err, pc, ptr2, err2, invalidByte

vars == <<FieldTag, typ, r0, pre, option, r, ptr, err, pc, ptr2, err2, invalidByte>>

(***************************************************************************)
(* Bounds of the model.                                                    *)
(***************************************************************************)
\* Most entries (key with its values, or key with its file parts) one
\* request carries, counted over the URL query and the body together.
MaxKeys == 2
\* Most values, or file parts, one key repeats.
MaxRepeat == 3

(***************************************************************************)
(* Strings and the strconv conversions populate uses.                      *)
(***************************************************************************)
DigitSeq == <<"0", "1", "2", "3", "4", "5", "6", "7", "8", "9">>

Digits == {DigitSeq[i] : i \in 1..10}

DigitVal(c) == (CHOOSE i \in 1..10 : DigitSeq[i] = c) - 1

UpperSeq == <<"A", "B", "C", "D", "E", "F", "G", "H", "I", "J", "K", "L", "M",
              "N", "O", "P", "Q", "R", "S", "T", "U", "V", "W", "X", "Y", "Z">>

LowerSeq == <<"a", "b", "c", "d", "e", "f", "g", "h", "i", "j", "k", "l", "m",
              "n", "o", "p", "q", "r", "s", "t", "u", "v", "w", "x", "y", "z">>

\* strings.ToLower on one ASCII character.
ToLowerChar(c) ==
    IF \E i \in 1..26 : UpperSeq[i] = c
    THEN LowerSeq[CHOOSE i \in 1..26 : UpperSeq[i] = c]
    ELSE c

\* The bytes of the model that are not ASCII, and the UTF-8 bytes of U+FFFD.
HighBytes == {"0xC3", "0x91", "0xB1", "0xEF", "0xBF", "0xBD"}

RuneError == <<"0xEF", "0xBF", "0xBD">>

\* strings.ToLower on a string of one byte.  A byte outside ASCII is not
\* valid UTF-8 by itself: range yields U+FFFD for it, which strings.Map
\* writes out or skips as unchanged, depending on the release.
ToLowerByte(c) ==
    IF c \in HighBytes
    THEN (IF invalidByte = "replaced" THEN RuneError ELSE <<c>>)
    ELSE <<ToLowerChar(c)>>

RECURSIVE Decimal(_)
Decimal(ds) ==
    IF ds = <<>> THEN 0
    ELSE Decimal(SubSeq(ds, 1, Len(ds) - 1)) * 10 + DigitVal(ds[Len(ds)])

AllDigits(s) == \A i \in 1..Len(s) : s[i] \in Digits

\* strconv.ParseInt(value, 10, 64): an optional sign and then one or more
\* decimal digits.  The numerals of the model are short, so the 64-bit range
\* error is never met.
ParseInt(value) ==
    LET signed == value # <<>> /\ value[1] \in {"+", "-"}
        ds     == IF signed THEN Tail(value) ELSE value
    IN  IF ds = <<>> \/ ~AllDigits(ds)
        THEN [ok |-> FALSE, val |-> 0]
        ELSE [ok |-> TRUE,
              val |-> IF signed /\ value[1] = "-" THEN 0 - Decimal(ds) ELSE Decimal(ds)]

\* strconv.ParseBool: exactly these twelve spellings.
TrueSpellings ==
    { <<"1">>, <<"t">>, <<"T">>, <<"T", "R", "U", "E">>, <<"t", "r", "u", "e">>,
      <<"T", "r", "u", "e">> }

FalseSpellings ==
    { <<"0">>, <<"f">>, <<"F">>, <<"F", "A", "L", "S", "E">>,
      <<"f", "a", "l", "s", "e">>, <<"F", "a", "l", "s", "e">> }

ParseBool(value) ==
    IF value \in TrueSpellings THEN [ok |-> TRUE, val |-> TRUE]
    ELSE IF value \in FalseSpellings THEN [ok |-> TRUE, val |-> FALSE]
    ELSE [ok |-> FALSE, val |-> FALSE]

RECURSIVE StripZeros(_)
StripZeros(ds) ==
    IF ds # <<>> /\ ds[Len(ds)] = "0" THEN StripZeros(SubSeq(ds, 1, Len(ds) - 1))
    ELSE ds

\* strconv.ParseFloat(value, 64) on plain decimal numerals: an optional sign,
\* digits with at most one point, at least one digit.  The value is kept as
\* mantissa m and the number e of fraction digits (m / 10^e).  Exponents,
\* hexadecimal numerals, inf and nan are outside the values of the model.
ParseFloat(value) ==
    LET signed == value # <<>> /\ value[1] \in {"+", "-"}
        body   == IF signed THEN Tail(value) ELSE value
        dots   == {i \in 1..Len(body) : body[i] = "."}
        ip     == IF dots = {} THEN body
                  ELSE SubSeq(body, 1, (CHOOSE i \in dots : TRUE) - 1)
        fp     == IF dots = {} THEN <<>>
                  ELSE StripZeros(SubSeq(body, (CHOOSE i \in dots : TRUE) + 1, Len(body)))
        fp0    == IF dots = {} THEN <<>>
                  ELSE SubSeq(body, (CHOOSE i \in dots : TRUE) + 1, Len(body))
        mag    == Decimal(ip \o fp)
    IN  IF Cardinality(dots) > 1 \/ ~AllDigits(ip) \/ ~AllDigits(fp0)
           \/ (ip = <<>> /\ fp0 = <<>>)
        THEN [ok |-> FALSE, val |-> [m |-> 0, e |-> 0]]
        ELSE [ok |-> TRUE,
              val |-> [m |-> IF signed /\ value[1] = "-" THEN 0 - mag ELSE mag,
                       e |-> Len(fp)]]

(***************************************************************************)
(* Go types of struct fields, as reflect sees them.                        *)
(***************************************************************************)
fileHeaderPtrType == "*multipart.FileHeader"

SliceTypes ==
    {"[]int", "[]string", "[]bool", "[]float64", "[]int64", "[]*multipart.FileHeader"}

\* reflect.Value.Kind
Kind(t) ==
    CASE t = "string" -> "string"
      [] t = "int" -> "int"
      [] t = "bool" -> "bool"
      [] t = "float64" -> "float64"
      [] t = "int64" -> "int64"
      [] t = fileHeaderPtrType -> "ptr"
      [] t \in SliceTypes -> "slice"

\* reflect.Type.Elem of a slice type
Elem(t) ==
    CASE t = "[]int" -> "int"
      [] t = "[]string" -> "string"
      [] t = "[]bool" -> "bool"
      [] t = "[]float64" -> "float64"
      [] t = "[]int64" -> "int64"
      [] t = "[]*multipart.FileHeader" -> fileHeaderPtrType

NilPart == "nil"

\* reflect.New(t).Elem(): the zero value of a type
Zero(t) ==
    CASE Kind(t) = "string" -> <<>>
      [] Kind(t) = "int" -> 0
      [] Kind(t) = "int64" -> 0
      [] Kind(t) = "bool" -> FALSE
      [] Kind(t) = "float64" -> [m |-> 0, e |-> 0]
      [] Kind(t) = "ptr" -> NilPart
      [] Kind(t) = "slice" -> <<>>

(***************************************************************************)
(* Errors and maps.                                                        *)
(***************************************************************************)
Nil == <<>>

\* One fmt.Errorf or library error: its format or message, the string it
\* names (a key or an offending value) and the type or kind it names.
Frame(msg, arg, type) == [msg |-> msg, arg |-> arg, type |-> type]

Wrap(frame, e) == <<frame>> \o e

\* make(map): the map with no keys
EmptyMap == [k \in {} |-> <<>>]

Put(m, k, v) == [x \in (DOMAIN m) \cup {k} |-> IF x = k THEN v ELSE m[x]]

\* The orders in which a range over a Go map may visit the keys: all of them.
Orders(S) ==
    {o \in [1..Cardinality(S) -> S] : \A i, j \in 1..Cardinality(S) : o[i] = o[j] => i = j}

(***************************************************************************)
(* The table of fields keyed by effective name, decode.go:59-74.           *)
(* A struct type is the sequence of its fields; a field has its Go name,   *)
(* its tag (tag key -> value, the empty string where the key is absent)    *)
(* and its type.                                                           *)
(***************************************************************************)
\* for i := range Name { name = ToLower(Name[:i+1]) + Name[i+1:]; break }
\* i is 0 in the first iteration, so Name[:i+1] is the first byte.
FirstLower(name) ==
    IF name = <<>> THEN <<>>
    ELSE ToLowerByte(name[1]) \o Tail(name)

ExternalName(field, tagKey) ==
    IF field.Tag[tagKey] = <<>> THEN FirstLower(field.Name)
    ELSE field.Tag[tagKey]

RECURSIVE FieldsUpTo(_, _, _)
FieldsUpTo(t, tagKey, n) ==
    IF n = 0 THEN EmptyMap
    ELSE Put(FieldsUpTo(t, tagKey, n - 1), ExternalName(t[n], tagKey), n)

\* fields: effective name -> index of the field it addresses
BuildFields(t, tagKey) == FieldsUpTo(t, tagKey, Len(t))


(***************************************************************************)
(* populate and populatePart, decode.go:144-178.  Each returns the value   *)
(* the slot holds afterwards and the error.                                *)
(***************************************************************************)
\* A bug: the parsed value is stored before the error is looked at.
Converted_StoresOnFailure(old, value, parsed, failure) ==
    [v |-> parsed.val,
     err |-> IF parsed.ok THEN Nil ELSE <<Frame(failure, value, "")>>]

\* if err != nil { return err }; v.Set...(parsed)
Converted(old, value, parsed, failure) ==
    IF parsed.ok THEN [v |-> parsed.val, err |-> Nil]
    ELSE [v |-> old, err |-> <<Frame(failure, value, "")>>]

\* A bug: a kind the switch does not know is skipped without an error.
populate_SkipsUnsupported(t, old, value) ==
    CASE Kind(t) = "string" -> [v |-> value, err |-> Nil]
      [] Kind(t) = "int" ->
            Converted(old, value, ParseInt(value), "strconv.ParseInt: invalid syntax")
      [] Kind(t) = "bool" ->
            Converted(old, value, ParseBool(value), "strconv.ParseBool: invalid syntax")
      [] Kind(t) = "float64" ->
            Converted(old, value, ParseFloat(value), "strconv.ParseFloat: invalid syntax")
      [] OTHER -> [v |-> old, err |-> Nil]

populate(t, old, value) ==
    CASE Kind(t) = "string" -> [v |-> value, err |-> Nil]
      [] Kind(t) = "int" ->
            Converted(old, value, ParseInt(value), "strconv.ParseInt: invalid syntax")
      [] Kind(t) = "bool" ->
            Converted(old, value, ParseBool(value), "strconv.ParseBool: invalid syntax")
      [] Kind(t) = "float64" ->
            Converted(old, value, ParseFloat(value), "strconv.ParseFloat: invalid syntax")
      [] OTHER -> [v |-> old, err |-> <<Frame("unsupported kind %s", <<>>, t)>>]

\* A bug: the type of the slot is not checked.
populatePart_Unchecked(t, old, part) == [v |-> part, err |-> Nil]

populatePart(t, old, part) ==
    IF fileHeaderPtrType # t
    THEN [v |-> old, err |-> <<Frame("unsupported multipart kind %s", <<>>, Kind(t))>>]
    ELSE [v |-> part, err |-> Nil]

(***************************************************************************)
(* unpack, decode.go:97-119.                                               *)
(***************************************************************************)
\* A bug: the slice is replaced by the new element instead of grown by it.
AppendElem_Replaces(cur, p) ==
    IF p.err # Nil THEN [v |-> cur, err |-> p.err]
    ELSE [v |-> <<p.v>>, err |-> Nil]

\* if err != nil { return ... }; f.Set(reflect.Append(f, elem))
AppendElem(cur, p) ==
    IF p.err # Nil THEN [v |-> cur, err |-> p.err]
    ELSE [v |-> Append(cur, p.v), err |-> Nil]

\* The body of the loop over the values of one key, decode.go:105-115.
bindValue(t, cur, value) ==
    IF Kind(t) = "slice"
    THEN AppendElem(cur, populate(Elem(t), Zero(Elem(t)), value))
    ELSE populate(t, cur, value)

\* for _, value := range values; s is what the first value's step left.
RECURSIVE bindValues(_, _, _)
RECURSIVE bindRest(_, _, _)
bindRest(t, s, rest) ==
    IF s.err # Nil THEN s ELSE bindValues(t, s.v, rest)

bindValues(t, cur, values) ==
    IF values = <<>> THEN [v |-> cur, err |-> Nil]
    ELSE bindRest(t, bindValue(t, cur, Head(values)), Tail(values))

\* f := fields[name]; f.IsValid()
IsValid(fields, name) == name \in DOMAIN fields

\* for name, values := range form, the keys visited in the given order; s is
\* what binding the values of the first key of the order left in its field.
RECURSIVE unpack(_, _, _, _, _)
RECURSIVE unpackRest(_, _, _, _, _, _)
RECURSIVE Unrecognized(_, _, _, _, _)
\* A bug: an unrecognized parameter is reported as an error.
Unrecognized_Rejects(t, fields, form, order, rec) ==
    [rec |-> rec, err |-> <<Frame("unknown parameter", Head(order), "")>>]

\* A bug: break where the code has continue.
Unrecognized_Breaks(t, fields, form, order, rec) ==
    [rec |-> rec, err |-> Nil]

\* continue // ignore unrecognized HTTP parameters
Unrecognized(t, fields, form, order, rec) ==
    unpack(t, fields, form, Tail(order), rec)

unpackRest(t, fields, form, order, rec, s) ==
    IF s.err # Nil
    THEN [rec |-> [rec EXCEPT ![fields[Head(order)]] = s.v],
          err |-> Wrap(Frame("%s: %v", Head(order), ""), s.err)]
    ELSE unpack(t, fields, form, Tail(order), [rec EXCEPT ![fields[Head(order)]] = s.v])

unpack(t, fields, form, order, rec) ==
    IF order = <<>> THEN [rec |-> rec, err |-> Nil]
    ELSE IF ~IsValid(fields, Head(order))
    THEN Unrecognized(t, fields, form, order, rec)
    ELSE unpackRest(t, fields, form, order, rec,
                    bindValues(t[fields[Head(order)]].Type, rec[fields[Head(order)]],
                               form[Head(order)]))

(***************************************************************************)
(* unpackMultipart, decode.go:121-142.                                     *)
(***************************************************************************)
bindPart(t, cur, part) ==
    IF Kind(t) = "slice"
    THEN AppendElem(cur, populatePart(Elem(t), Zero(Elem(t)), part))
    ELSE populatePart(t, cur, part)

RECURSIVE bindParts(_, _, _)
RECURSIVE bindPartsRest(_, _, _)
bindPartsRest(t, s, rest) ==
    IF s.err # Nil THEN s ELSE bindParts(t, s.v, rest)

bindParts(t, cur, parts) ==
    IF parts = <<>> THEN [v |-> cur, err |-> Nil]
    ELSE bindPartsRest(t, bindPart(t, cur, Head(parts)), Tail(parts))

RECURSIVE unpackMultipart(_, _, _, _, _)
RECURSIVE unpackMultipartRest(_, _, _, _, _, _)
RECURSIVE UnrecognizedPart(_, _, _, _, _)
\* continue // ignore unrecognized HTTP parameters
UnrecognizedPart(t, fields, m, order, rec) ==
    unpackMultipart(t, fields, m, Tail(order), rec)

unpackMultipartRest(t, fields, m, order, rec, s) ==
    IF s.err # Nil
    THEN [rec |-> [rec EXCEPT ![fields[Head(order)]] = s.v],
          err |-> Wrap(Frame("%s: %v", Head(order), ""), s.err)]
    ELSE unpackMultipart(t, fields, m, Tail(order), [rec EXCEPT ![fields[Head(order)]] = s.v])

unpackMultipart(t, fields, m, order, rec) ==
    IF order = <<>> THEN [rec |-> rec, err |-> Nil]
    ELSE IF ~IsValid(fields, Head(order))
    THEN UnrecognizedPart(t, fields, m, order, rec)
    ELSE unpackMultipartRest(t, fields, m, order, rec,
                             bindParts(t[fields[Head(order)]].Type, rec[fields[Head(order)]],
                                       m[Head(order)]))

(***************************************************************************)
(* The request, and the net/http parsing that UnpackWithOption calls at    *)
(* decode.go:51-55.  A request is fresh: nothing has parsed it before.     *)
(*   Method, URL (the query values), Header (the Content-Type as written:  *)
(*   media type and parameters, both empty when the header is absent),     *)
(*   Body (kind of content, whether reading or parsing it fails, the form  *)
(*   values, file parts or decoded document it carries, and where its      *)
(*   stream stands), Form, PostForm and MultipartForm.                     *)
(***************************************************************************)
\* mime.ParseMediaType lower-cases the media type.
LowerMediaType(t) ==
    CASE t = "Application/JSON" -> "application/json"
      [] t = "Multipart/Form-Data" -> "multipart/form-data"
      [] OTHER -> t

\* Media types and parameter lists that mime.ParseMediaType rejects.
MalformedTypes == {"application/", "text/plain/extra"}

MalformedParams == {"charset"}

\* A malformed type is an error without a media type; a malformed
\* parameter is ErrInvalidMediaParameter together with the media type.
ParseMediaType(ct) ==
    IF ct.type = "application/"
    THEN [mediaType |-> "", params |-> "",
          err |-> <<Frame("mime: expected token after slash", <<>>, ct.type)>>]
    ELSE IF ct.type \in MalformedTypes
    THEN [mediaType |-> "", params |-> "",
          err |-> <<Frame("mime: unexpected content after media subtype", <<>>, ct.type)>>]
    ELSE IF ct.params \in MalformedParams
    THEN [mediaType |-> LowerMediaType(ct.type), params |-> "",
          err |-> <<Frame("mime: invalid media parameter", <<>>, ct.type)>>]
    ELSE [mediaType |-> LowerMediaType(ct.type), params |-> ct.params, err |-> Nil]

\* ct := Header.Get("Content-Type"); if ct == "" { ct = "application/octet-stream" }
HeaderOrDefault(h) ==
    IF h.type = "" /\ h.params = "" THEN [type |-> "application/octet-stream", params |-> ""]
    ELSE h

\* net/http copyValues: the values of src are appended after those of dst.
copyValues(dst, src) ==
    [k \in (DOMAIN dst) \cup (DOMAIN src) |->
        (IF k \in DOMAIN dst THEN dst[k] ELSE <<>>) \o (IF k \in DOMAIN src THEN src[k] ELSE <<>>)]

\* Reading and parsing a URL-encoded body.
ReadFormBody(body) ==
    IF body.bad = "read"
    THEN [vs |-> EmptyMap, pos |-> "failed", err |-> <<Frame("read body", <<>>, "")>>]
    ELSE [vs |-> body.values, pos |-> "end",
          err |-> IF body.bad = "syntax"
                  THEN <<Frame("invalid URL escape", <<>>, "")>> ELSE Nil]

\* if err == nil { err = e }: the first error is the one kept.
KeepFirst(e, read) == [read EXCEPT !.err = IF e # Nil THEN e ELSE read.err]

\* The switch of parsePostForm on the media type ParseMediaType returned as
\* pm, which it does whether or not pm carries an error.
PostFormOf(req, pm) ==
    IF pm.mediaType = "application/x-www-form-urlencoded"
    THEN KeepFirst(pm.err, ReadFormBody(req.Body))
    ELSE [vs |-> EmptyMap, pos |-> req.Body.pos, err |-> pm.err]

\* net/http parsePostForm: the body is read only when the media type is
\* application/x-www-form-urlencoded.
parsePostForm(req) == PostFormOf(req, ParseMediaType(HeaderOrDefault(req.Header)))

\* Form holds the body's values first and then the URL query's.
SetForms(req, post) ==
    [r |-> [req EXCEPT !.PostForm = post.vs,
                       !.Form = copyValues(copyValues(EmptyMap, post.vs), req.URL),
                       !.Body.pos = post.pos],
     err |-> post.err]

\* http.Request.ParseForm: PostForm from the body of a POST, PUT or PATCH.
ParseForm(req) ==
    SetForms(req, IF req.Method \in {"POST", "PUT", "PATCH"} THEN parsePostForm(req)
                  ELSE [vs |-> EmptyMap, pos |-> req.Body.pos, err |-> Nil])

\* The multipart half of ParseMultipartForm: the reader needs the media type
\* multipart/form-data and a boundary; the text values of the body are
\* appended to Form and PostForm.
ReadMultipart(req, pf, pm) ==
    IF req.Header.type = "" \/ pm.err # Nil \/ pm.mediaType # "multipart/form-data"
    THEN [r |-> pf.r, err |-> <<Frame("request Content-Type isn't multipart/form-data", <<>>, "")>>]
    ELSE IF pm.params # "boundary=b"
    THEN [r |-> pf.r, err |-> <<Frame("no multipart boundary param in Content-Type", <<>>, "")>>]
    ELSE IF req.Body.bad # "no"
    THEN [r |-> [pf.r EXCEPT !.Body.pos = "failed"],
          err |-> <<Frame("multipart: NextPart", <<>>, "")>>]
    ELSE [r |-> [pf.r EXCEPT !.Form = copyValues(pf.r.Form, req.Body.values),
                             !.PostForm = copyValues(pf.r.PostForm, req.Body.values),
                             !.MultipartForm = [set |-> TRUE, Value |-> req.Body.values,
                                                File |-> req.Body.files],
                             !.Body.pos = "end"],
          err |-> pf.err]

\* http.Request.ParseMultipartForm: ParseForm first, then the multipart body.
ParseMultipartForm(req) == ReadMultipart(req, ParseForm(req), ParseMediaType(req.Header))

(***************************************************************************)
(* UnpackWithOption, decode.go:49-95.                                      *)
(***************************************************************************)
Body == 0
Query == 1
Multipart == 2
Mixed == 3
MixedMultipart == 4

\* decode.go:51-55
ParseRequest(req, opt) ==
    IF opt = Multipart \/ opt = MixedMultipart THEN ParseMultipartForm(req)
    ELSE ParseForm(req)

\* A bug: Mixed binds the body alone.
FormFor_MixedIsBody(req, opt) ==
    CASE opt = Query -> req.URL
      [] opt = MixedMultipart -> req.Form
      [] OTHER -> req.PostForm

\* The value source the switch at decode.go:76-89 hands to unpack.
FormFor(req, opt) ==
    CASE opt = Query -> req.URL
      [] opt = Mixed -> req.Form
      [] opt = Multipart -> req.PostForm
      [] opt = MixedMultipart -> req.Form
      [] OTHER -> req.PostForm

\* A call's outcome: the request and the record afterwards, the error
\* returned, and whether the call panicked instead of returning.
Outcome(req, p, e, panicked) == [r |-> req, ptr |-> p, err |-> e, panic |-> panicked]

\* decode.go:90-94: after unpack returned u, the file parts are bound unless
\* unpack failed.
UnpackFiles(req, p, t, fields, o2, u) ==
    IF u.err # Nil THEN Outcome(req, [p EXCEPT !.v = u.rec], u.err, FALSE)
    ELSE Outcome(req, [p EXCEPT !.v = unpackMultipart(t, fields, req.MultipartForm.File, o2, u.rec).rec],
                 unpackMultipart(t, fields, req.MultipartForm.File, o2, u.rec).err, FALSE)

\* decode.go:76-89: Query, Body, Mixed and any undeclared option return what
\* unpack returns.
UnpackValues(req, p, u) == Outcome(req, [p EXCEPT !.v = u.rec], u.err, FALSE)

\* decode.go:56-94, ps being what parsing the request returned.  A nil ptr
\* makes reflect.ValueOf(ptr).Elem() panic.
UnpackParsed(ps, p, t, tagKey, opt, o1, o2) ==
    IF ps.err # Nil THEN Outcome(ps.r, p, ps.err, FALSE)
    ELSE IF p.nil THEN Outcome(ps.r, p, Nil, TRUE)
    ELSE IF opt = Multipart \/ opt = MixedMultipart
    THEN UnpackFiles(ps.r, p, t, BuildFields(t, tagKey), o2,
                     unpack(t, BuildFields(t, tagKey), FormFor(ps.r, opt), o1, p.v))
    ELSE UnpackValues(ps.r, p, unpack(t, BuildFields(t, tagKey), FormFor(ps.r, opt), o1, p.v))

\* o1 and o2: the orders in which unpack and unpackMultipart visit the keys.
UnpackWithOption(req, p, t, tagKey, opt, o1, o2) ==
    UnpackParsed(ParseRequest(req, opt), p, t, tagKey, opt, o1, o2)

(***************************************************************************)
(* Package reqconv: Unmarshal and unmarshal.                               *)
(***************************************************************************)
\* The fields of a document (Body.doc) stored in the record.  json.Unmarshal
\* resets a slice before it appends the elements; xml.Unmarshal extends the
\* slice the record holds.
Stored(format, doc, p, t) ==
    [p EXCEPT !.v = [i \in DOMAIN p.v |->
        IF i \notin DOMAIN doc THEN p.v[i]
        ELSE IF format = "xml" /\ Kind(t[i].Type) = "slice" THEN p.v[i] \o doc[i]
        ELSE doc[i]]]

\* json.Unmarshal checks the whole input (checkValid) before it looks at the
\* destination, and stores nothing of an input that is not JSON.
DecodeJSON(body, p, t) ==
    IF body.kind # "json" \/ body.bad = "syntax"
    THEN [ptr |-> p, err |-> <<Frame("json: syntax error", <<>>, "json")>>]
    ELSE IF p.nil THEN [ptr |-> p, err |-> <<Frame("json: Unmarshal(nil)", <<>>, "json")>>]
    ELSE [ptr |-> Stored("json", body.doc, p, t), err |-> Nil]

\* xml.Unmarshal looks at the destination first and then decodes token by
\* token: an input without an element ends in EOF, and of a malformed
\* document the elements before the error (Body.doc) are stored.
DecodeXML(body, p, t) ==
    IF p.nil THEN [ptr |-> p, err |-> <<Frame("non-pointer passed to Unmarshal", <<>>, "xml")>>]
    ELSE IF body.kind # "xml" THEN [ptr |-> p, err |-> <<Frame("EOF", <<>>, "xml")>>]
    ELSE [ptr |-> Stored("xml", body.doc, p, t),
          err |-> IF body.bad = "syntax" THEN <<Frame("XML syntax error", <<>>, "xml")>>
                  ELSE Nil]

\* unmarshaler(b, ptr), the unmarshaler being json.Unmarshal or xml.Unmarshal
Decode(format, body, p, t) ==
    IF format = "json" THEN DecodeJSON(body, p, t) ELSE DecodeXML(body, p, t)

\* A bug: the body is reset only when the document was decoded.
Restored_OnlyOnSuccess(req, d) ==
    Outcome(IF d.err = Nil THEN [req EXCEPT !.Body.pos = "start"] ELSE req, d.ptr, d.err, FALSE)

\* r.Body = ioutil.NopCloser(bytes.NewReader(b)); return unmarshaler(b, ptr):
\* the request gets a new reader over the bytes read, at their start.
Restored(req, d) == Outcome([req EXCEPT !.Body.pos = "start"], d.ptr, d.err, FALSE)

\* ioutil.ReadAll(r.Body) fails, or leaves the body at its end with b the
\* bytes read; then the body is reset and b is decoded.
unmarshal(req, p, t, format) ==
    IF req.Body.bad = "read"
    THEN Outcome([req EXCEPT !.Body.pos = "failed"], p, <<Frame("read body", <<>>, "")>>, FALSE)
    ELSE Restored([req EXCEPT !.Body.pos = "end"], Decode(format, req.Body, p, t))

NoBodyMethods == {"GET", "DELETE", "HEAD", "TRACE"}

\* A bug: the error is returned as it came.
WrapBodyError_Unwrapped(mediaType, res) == res

\* if err != nil { return fmt.Errorf("parse request body as %s: %v", ...) }
WrapBodyError(mediaType, res) ==
    IF res.err # Nil
    THEN [res EXCEPT !.err = Wrap(Frame("parse request body as %s: %v", <<>>, mediaType), res.err)]
    ELSE res

\* A bug: a URL-encoded body is bound merged with the URL query.
Dispatch_FormIsMixed(req, p, t, tagKey, o1, o2, mediaType) ==
    CASE mediaType = "application/json" ->
            WrapBodyError(mediaType, unmarshal(req, p, t, "json"))
      [] mediaType = "application/xml" ->
            WrapBodyError(mediaType, unmarshal(req, p, t, "xml"))
      [] mediaType = "multipart/form-data" ->
            WrapBodyError(mediaType, UnpackWithOption(req, p, t, tagKey, Multipart, o1, o2))
      [] mediaType = "application/x-www-form-urlencoded" ->
            WrapBodyError(mediaType, UnpackWithOption(req, p, t, tagKey, Mixed, o1, o2))
      [] OTHER ->
            Outcome(req, p, <<Frame("unsupported content type: %s", <<>>,
                                    HeaderOrDefault(req.Header).type)>>, FALSE)

\* A bug: the switch has no default case, so another type is a silent no-op.
Dispatch_NoDefault(req, p, t, tagKey, o1, o2, mediaType) ==
    CASE mediaType = "application/json" ->
            WrapBodyError(mediaType, unmarshal(req, p, t, "json"))
      [] mediaType = "application/xml" ->
            WrapBodyError(mediaType, unmarshal(req, p, t, "xml"))
      [] mediaType = "multipart/form-data" ->
            WrapBodyError(mediaType, UnpackWithOption(req, p, t, tagKey, Multipart, o1, o2))
      [] mediaType = "application/x-www-form-urlencoded" ->
            WrapBodyError(mediaType, UnpackWithOption(req, p, t, tagKey, Body, o1, o2))
      [] OTHER -> Outcome(req, p, Nil, FALSE)

\* The switch on the media type, part_000:288-305.
Dispatch(req, p, t, tagKey, o1, o2, mediaType) ==
    CASE mediaType = "application/json" ->
            WrapBodyError(mediaType, unmarshal(req, p, t, "json"))
      [] mediaType = "application/xml" ->
            WrapBodyError(mediaType, unmarshal(req, p, t, "xml"))
      [] mediaType = "multipart/form-data" ->
            WrapBodyError(mediaType, UnpackWithOption(req, p, t, tagKey, Multipart, o1, o2))
      [] mediaType = "application/x-www-form-urlencoded" ->
            WrapBodyError(mediaType, UnpackWithOption(req, p, t, tagKey, Body, o1, o2))
      [] OTHER ->
            Outcome(req, p, <<Frame("unsupported content type: %s", <<>>,
                                    HeaderOrDefault(req.Header).type)>>, FALSE)

\* part_000:277-286
ByContentType(req, p, t, tagKey, o1, o2, pm) ==
    IF pm.err # Nil
    THEN Outcome(req, p, Wrap(Frame("parse request media type: %v", <<>>, ""), pm.err), FALSE)
    ELSE Dispatch(req, p, t, tagKey, o1, o2, pm.mediaType)

Unmarshal(req, p, t, tagKey, o1, o2) ==
    IF req.Method \in NoBodyMethods
    THEN UnpackWithOption(req, p, t, tagKey, Query, o1, o2)
    ELSE ByContentType(req, p, t, tagKey, o1, o2, ParseMediaType(HeaderOrDefault(req.Header)))

(***************************************************************************)
(* The struct types and the values the model binds.                        *)
(***************************************************************************)
TagKeys == {"json", "http", "form", "xml"}

JsonTag(name) == [k \in TagKeys |-> IF k = "json" THEN name ELSE <<>>]

Field(name, tag, type) == [Name |-> name, Tag |-> tag, Type |-> type]

kQ == <<"q">>
kInt == <<"i", "n", "t">>
kFloat == <<"f", "l", "o", "a", "t">>
kBool == <<"b", "o", "o", "l">>
kArray == <<"a", "r", "r", "a", "y">>
kDefault == <<"d", "e", "f", "a", "u", "l", "t">>
kExtra == <<"e", "x", "t", "r", "a">>
kHello == <<"h", "e", "l", "l", "o">>
kFile == <<"f", "i", "l", "e">>
kFile2 == <<"f", "i", "l", "e", "2">>
kFiles == <<"f", "i", "l", "e", "s">>

\* type Params of TestUnpack, decode_test.go:14-21
ParamsType ==
    << Field(<<"Q">>, JsonTag(kQ), "string"),
       Field(<<"I", "n", "t">>, JsonTag(kInt), "int"),
       Field(<<"F", "l", "o", "a", "t">>, JsonTag(kFloat), "float64"),
       Field(<<"B", "o", "o", "l">>, JsonTag(kBool), "bool"),
       Field(<<"A", "r", "r", "a", "y">>, JsonTag(kArray), "[]int"),
       Field(<<"D", "e", "f", "a", "u", "l", "t">>, JsonTag(kDefault), "string") >>

\* type model of TestUnpackMultipart, decode_test.go:86-91
ModelType ==
    << Field(<<"V", "a", "l">>, JsonTag(kHello), "string"),
       Field(<<"F", "i", "l", "e">>, JsonTag(kFile), fileHeaderPtrType),
       Field(<<"F", "i", "l", "e", "2">>, JsonTag(kFile2), fileHeaderPtrType),
       Field(<<"F", "i", "l", "e", "s">>, JsonTag(kFiles), "[]*multipart.FileHeader") >>

\* The index of the field of a type with the given Go name.
FieldIndex(t, goName) == CHOOSE i \in 1..Len(t) : t[i].Name = goName

iInt == FieldIndex(ParamsType, <<"I", "n", "t">>)
iArray == FieldIndex(ParamsType, <<"A", "r", "r", "a", "y">>)
iDefault == FieldIndex(ParamsType, <<"D", "e", "f", "a", "u", "l", "t">>)
iQ == FieldIndex(ParamsType, <<"Q">>)
iVal == FieldIndex(ModelType, <<"V", "a", "l">>)
iFile == FieldIndex(ModelType, <<"F", "i", "l", "e">>)
iFiles == FieldIndex(ModelType, <<"F", "i", "l", "e", "s">>)

\* A struct value whose fields all hold their zero values.
ZeroRecord(t) == [i \in 1..Len(t) |-> Zero(t[i].Type)]

\* A non-nil pointer to a struct value, and the nil interface.
PtrTo(v) == [nil |-> FALSE, v |-> v]

NilPtr == [nil |-> TRUE, v |-> <<>>]

s1 == <<"1">>
s2 == <<"2">>
s3 == <<"3">>
s4 == <<"4">>
s7 == <<"7">>
sx == <<"x">>
s233 == <<"2", "3", "3">>
s888 == <<"8", "8", "8">>
s999 == <<"9", "9", "9">>
s2333 == <<"2", "3", "3", "3">>
sabc == <<"a", "b", "c">>
sgolang == <<"g", "o", "l", "a", "n", "g">>
sworld == <<"w", "o", "r", "l", "d">>

\* The records a caller passes for Params: all zero, the default of the
\* tests (Default: "2333"), and one with every bound field pre-set.
ParamsRecords ==
    { ZeroRecord(ParamsType),
      [ZeroRecord(ParamsType) EXCEPT ![iDefault] = s2333],
      [ZeroRecord(ParamsType) EXCEPT ![iDefault] = s2333, ![iInt] = 42, ![iArray] = <<7>>] }

(***************************************************************************)
(* The requests of the model.  The values of a key are a prefix, of at     *)
(* most MaxRepeat values, of one of the key's streams; a request carries   *)
(* at most MaxKeys entries.                                                *)
(***************************************************************************)
Min(a, b) == IF a < b THEN a ELSE b

Prefixes(s) == {SubSeq(s, 1, n) : n \in 1..Min(MaxRepeat, Len(s))}

ValueLists(streams) == UNION {Prefixes(s) : s \in streams}

MapsOn(streams, Ks) ==
    {f \in [Ks -> UNION {ValueLists(streams[k]) : k \in Ks}] :
        \A k \in Ks : f[k] \in ValueLists(streams[k])}

Sources(streams, n) ==
    UNION {MapsOn(streams, Ks) : Ks \in {S \in SUBSET (DOMAIN streams) : Cardinality(S) <= n}}

Size(m) == Cardinality(DOMAIN m)

BindStreams ==
    (kDefault :> {<<s888, s999, s888, s999, s888>>, <<s999>>}) @@
    (kInt :> {<<s233, sabc, s7, s7, s7>>, <<sabc>>}) @@
    (kArray :> {<<s1, s2, s3, s4, s1>>, <<s1, sx>>}) @@
    (kExtra :> {<<s1>>})

NoMultipartForm == [set |-> FALSE, Value |-> EmptyMap, File |-> EmptyMap]

FormBody(values) ==
    [kind |-> "form", bad |-> "no", values |-> values, files |-> EmptyMap,
     doc |-> EmptyMap, pos |-> "start"]

Request(method, query, header, body) ==
    [Method |-> method, URL |-> query, Header |-> header, Body |-> body,
     Form |-> EmptyMap, PostForm |-> EmptyMap, MultipartForm |-> NoMultipartForm]

FormHeader == [type |-> "application/x-www-form-urlencoded", params |-> "charset=utf-8"]


(***************************************************************************)
(* Binding a URL-encoded request with UnpackWithOption, and binding the    *)
(* same request once more into a fresh copy of the record.                 *)
(***************************************************************************)
Init ==
    /\ FieldTag = "json"
    /\ invalidByte = "replaced"
    /\ typ = ParamsType
    /\ \E q \in Sources(BindStreams, MaxKeys) :
         \E b \in Sources(BindStreams, MaxKeys - Size(q)) :
           \E m \in {"POST", "GET"} :
             r0 = Request(m, q, FormHeader, FormBody(b))
    /\ \E v \in ParamsRecords : pre = PtrTo(v)
    /\ option \in {Body, Query, Mixed, MixedMultipart + 1}
    /\ r = r0
    /\ ptr = pre
    /\ err = Nil
    /\ pc = "call"
    /\ ptr2 = pre
    /\ err2 = Nil

\* The keys unpack ranges over, and those unpackMultipart ranges over.
ValueKeys(ps, opt) == DOMAIN FormFor(ps.r, opt)

FileKeys(ps) == DOMAIN ps.r.MultipartForm.File

\* The caller's view after a call returned out.
Returns(out) ==
    /\ r' = out.r
    /\ ptr' = out.ptr
    /\ err' = out.err
    /\ pc' = IF out.panic THEN "panic" ELSE "done"

ReturnsAgain(out) ==
    /\ ptr2' = out.ptr
    /\ err2' = out.err
    /\ pc' = IF out.panic THEN "panic" ELSE "again"

\* form.UnpackWithOption(r, ptr, option)
Unpack ==
    /\ pc = "call"
    /\ \E o1 \in Orders(ValueKeys(ParseRequest(r, option), option)) :
         \E o2 \in Orders(FileKeys(ParseRequest(r, option))) :
           Returns(UnpackWithOption(r, ptr, typ, FieldTag, option, o1, o2))
    /\ UNCHANGED <<FieldTag, typ, r0, pre, option, ptr2, err2, invalidByte>>

\* The same call on an identical fresh request and a fresh copy of the record.
Rebind ==
    /\ pc = "done"
    /\ \E o1 \in Orders(ValueKeys(ParseRequest(r0, option), option)) :
         \E o2 \in Orders(FileKeys(ParseRequest(r0, option))) :
           ReturnsAgain(UnpackWithOption(r0, pre, typ, FieldTag, option, o1, o2))
    /\ UNCHANGED <<FieldTag, typ, r0, pre, option, r, ptr, err, invalidByte>>

Next == Unpack \/ Rebind

Spec == Init /\ [][Next]_vars

(***************************************************************************)
(* Properties of a bind (specification Spec).                              *)
(***************************************************************************)
Returned == pc \in {"done", "again"}

\* The value source the call bound, and the table of fields it used.
Source == FormFor(r, option)

FieldsOf == BuildFields(typ, FieldTag)

NameOf(i) == ExternalName(typ[i], FieldTag)

Last(s) == s[Len(s)]

IsScalar(i) == Kind(typ[i].Type) # "slice"

\* The body's values as ParseForm reads them: those of a POST, PUT or PATCH.
BodyDefines(k) == r0.Method \in {"POST", "PUT", "PATCH"} /\ k \in DOMAIN r0.Body.values

\* C3: after a Mixed bind that returned no error, every scalar field whose
\* external name both the URL query and the body define holds the query's
\* (last) value, coerced to the field's type.
C3_MixedQueryWins ==
    (Returned /\ option = Mixed /\ err = Nil) =>
        \A i \in 1..Len(typ) :
            (IsScalar(i) /\ NameOf(i) \in DOMAIN r0.URL /\ BodyDefines(NameOf(i))) =>
                ptr.v[i] = populate(typ[i].Type, pre.v[i], Last(r0.URL[NameOf(i)])).v

\* The test's case: query default=888, body default=999, Default pre-set to
\* "2333" and bound to "888".
C3_Witness ==
    /\ pc = "done" /\ option = Mixed /\ err = Nil
    /\ kDefault \in DOMAIN r0.URL /\ BodyDefines(kDefault)
    /\ r0.URL[kDefault] = <<s888>> /\ r0.Body.values[kDefault] = <<s999>>
    /\ pre.v[iDefault] = s2333
    /\ ptr.v[iDefault] = s888

OneTwoThree == <<s1, s2, s3>>

BindsOneTwoThree ==
    /\ Returned /\ option \in {Query, Body, Mixed} /\ err = Nil
    /\ kArray \in DOMAIN Source /\ Source[kArray] = OneTwoThree

\* C5 as claimed: binding array=1&array=2&array=3 leaves the sequence field
\* equal to exactly [1,2,3].
C5_ExactlyOneTwoThree == BindsOneTwoThree => ptr.v[iArray] = <<1, 2, 3>>

\* C5 amended: binding array=1&array=2&array=3 with Query, Body or Mixed
\* appends 1, 2, 3 in source order to what the field held before the call;
\* the field equals [1,2,3] when it was empty before.
C5_AppendsOneTwoThree ==
    BindsOneTwoThree =>
        /\ ptr.v[iArray] = pre.v[iArray] \o <<1, 2, 3>>
        /\ pre.v[iArray] = <<>> => ptr.v[iArray] = <<1, 2, 3>>

C5_Witness ==
    /\ BindsOneTwoThree /\ option = Mixed /\ pre.v[iArray] = <<>> /\ ptr.v[iArray] = <<1, 2, 3>>

\* A source whose value for Default (text) is valid and whose value for Int
\* (integer) is no numeral.
TextValidIntInvalid ==
    /\ Returned
    /\ kDefault \in DOMAIN Source /\ kInt \in DOMAIN Source
    /\ ~ParseInt(Source[kInt][1]).ok

\* C6 as claimed: the bind ends with an error, the text field holding its new
\* value and the integer field its pre-call value, in every execution.
C6_TextAlwaysBound ==
    TextValidIntInvalid =>
        /\ err # Nil
        /\ ptr.v[iDefault] = Last(Source[kDefault])
        /\ ptr.v[iInt] = pre.v[iInt]

\* C6 amended: the bind ends with an error that names a key of the source
\* (the integer's key when the source holds only the two keys), the integer
\* field holds its pre-call value, and the text field holds either its new
\* value (its key was visited before the failure) or its pre-call value (the
\* failing key was visited first).
C6_TextBoundOrUntouched ==
    TextValidIntInvalid =>
        /\ err # Nil
        /\ err[1].arg \in DOMAIN Source
        /\ DOMAIN Source = {kDefault, kInt} => err[1].arg = kInt
        /\ ptr.v[iInt] = pre.v[iInt]
        /\ ptr.v[iDefault] \in {Last(Source[kDefault]), pre.v[iDefault]}

C6_Witness ==
    /\ TextValidIntInvalid /\ pc = "done" /\ err # Nil
    /\ pre.v[iInt] = 42 /\ ptr.v[iInt] = 42
    /\ pre.v[iDefault] = s2333 /\ ptr.v[iDefault] = s888

\* C8: a bind changes only fields whose external name is a key of the value
\* source; a key that matches no field is never what an error names, and a
\* source none of whose keys matches a field is bound without error and
\* leaves the record as it was.
C8_OnlySourceKeysChange ==
    Returned =>
        /\ \A i \in 1..Len(typ) : NameOf(i) \notin DOMAIN Source => ptr.v[i] = pre.v[i]
        /\ err # Nil => IsValid(FieldsOf, err[1].arg)
        /\ (\A k \in DOMAIN Source : ~IsValid(FieldsOf, k)) => (err = Nil /\ ptr = pre)

\* Default pre-set to "2333" is kept while "extra" is skipped and int bound.
C8_Witness ==
    /\ pc = "done" /\ err = Nil
    /\ DOMAIN Source = {kExtra, kInt}
    /\ pre.v[iDefault] = s2333 /\ ptr.v[iDefault] = s2333
    /\ ptr.v[iInt] = 233 /\ pre.v[iInt] # 233

\* C9 as claimed: two binds of the same source into fresh copies of the
\* record end with the same record and the same error, whatever the orders.
C9_SameResult == pc = "again" => (ptr2 = ptr /\ err2 = err)

\* C9 amended: two binds of the same source into fresh copies of the record
\* both succeed or both fail, and when they succeed the records are equal.
C9_SameOutcome ==
    pc = "again" =>
        /\ (err = Nil) <=> (err2 = Nil)
        /\ err = Nil => ptr2 = ptr

C9_Witness ==
    /\ pc = "again" /\ err = Nil /\ err2 = Nil
    /\ Size(Source) = 2 /\ \A k \in DOMAIN Source : IsValid(FieldsOf, k)
    /\ ptr # pre /\ ptr2 = ptr

(***************************************************************************)
(* Binding a multipart request with UnpackWithOption (specification        *)
(* SpecMultipart).                                                         *)
(***************************************************************************)
h0 == "h0"
h1 == "h1"
h2 == "h2"
h3 == "h3"
h4 == "h4"
h5 == "h5"

\* Text values of the URL query and of the text parts of the body.
TextStreams ==
    (kHello :> {<<s888, s999, s888, s999, s888>>, <<s999>>}) @@
    (kFile :> {<<s1>>}) @@
    (kExtra :> {<<s1>>})

\* File parts of the body.
FileStreams ==
    (kFile :> {<<h1, h2, h3, h4, h5>>}) @@
    (kFiles :> {<<h1, h2, h3, h4, h5>>}) @@
    (kHello :> {<<h1>>}) @@
    (kExtra :> {<<h1>>})

MultipartBody(values, files) ==
    [kind |-> "multipart", bad |-> "no", values |-> values, files |-> files,
     doc |-> EmptyMap, pos |-> "start"]

MultipartHeader == [type |-> "multipart/form-data", params |-> "boundary=b"]

\* The records a caller passes for model: all zero, and one with every
\* field pre-set.
ModelRecords ==
    { ZeroRecord(ModelType),
      [ZeroRecord(ModelType) EXCEPT ![iVal] = s2333, ![iFile] = h0, ![iFiles] = <<h0>>] }

InitMultipart ==
    /\ FieldTag = "json"
    /\ invalidByte = "replaced"
    /\ typ = ModelType
    /\ \E q \in Sources(TextStreams, MaxKeys) :
         \E b \in Sources(TextStreams, MaxKeys - Size(q)) :
           \E f \in Sources(FileStreams, MaxKeys - Size(q) - Size(b)) :
             \E m \in {"POST", "GET"} :
               r0 = Request(m, q, MultipartHeader, MultipartBody(b, f))
    /\ \E v \in ModelRecords : pre = PtrTo(v)
    /\ option \in {Multipart, MixedMultipart}
    /\ r = r0
    /\ ptr = pre
    /\ err = Nil
    /\ pc = "call"
    /\ ptr2 = pre
    /\ err2 = Nil

SpecMultipart == InitMultipart /\ [][Next]_vars

\* The file parts the call bound.
Files == r.MultipartForm.File

FilePartTypes == {fileHeaderPtrType, "[]*multipart.FileHeader"}

\* The file keys that match a field of another type than a file-part
\* reference or a sequence of them.
MistypedFileKeys ==
    {k \in DOMAIN Files : IsValid(FieldsOf, k) /\ typ[FieldsOf[k]].Type \notin FilePartTypes}

\* No text value can fail: every key of the value source that matches a
\* field matches a text field.
TextCannotFail ==
    \A k \in DOMAIN Source : IsValid(FieldsOf, k) => typ[FieldsOf[k]].Type = "string"

\* C4 as claimed (decode.go:26): after a MixedMultipart bind that returned
\* no error, every scalar field whose external name both the URL query and a
\* text part of the body define holds the query's (last) value.
C4_MixedMultipartQueryWins ==
    (Returned /\ option = MixedMultipart /\ err = Nil) =>
        \A i \in 1..Len(typ) :
            (IsScalar(i) /\ NameOf(i) \in DOMAIN r0.URL /\ NameOf(i) \in DOMAIN r0.Body.values) =>
                ptr.v[i] = populate(typ[i].Type, pre.v[i], Last(r0.URL[NameOf(i)])).v

\* C10: in a bind that reaches the file parts (Multipart or MixedMultipart),
\* when it returns no error every file key that matches a field has set a
\* file-part reference to the key's last handle or appended the key's
\* handles, in order, to a sequence of file-part references; a file key
\* that matches a field of another type makes the bind fail, with an error
\* that names such a key unless a text value failed first; and a file key
\* that matches no field is never what an error names and changes no field.
C10_FilePartsBound ==
    (Returned /\ r.MultipartForm.set) =>
        /\ err = Nil =>
             \A k \in DOMAIN Files : IsValid(FieldsOf, k) =>
                 \/ /\ typ[FieldsOf[k]].Type = fileHeaderPtrType
                    /\ ptr.v[FieldsOf[k]] = Last(Files[k])
                 \/ /\ typ[FieldsOf[k]].Type = "[]*multipart.FileHeader"
                    /\ ptr.v[FieldsOf[k]] = pre.v[FieldsOf[k]] \o Files[k]
        /\ MistypedFileKeys # {} => err # Nil
        /\ (MistypedFileKeys # {} /\ TextCannotFail) =>
             /\ err[1].arg \in MistypedFileKeys
             /\ err[2].msg = "unsupported multipart kind %s"
        /\ err # Nil => IsValid(FieldsOf, err[1].arg)
        /\ \A i \in 1..Len(typ) :
             NameOf(i) \notin (DOMAIN Files) \cup (DOMAIN Source) => ptr.v[i] = pre.v[i]

\* A repeated key on a file-part reference and three parts appended to a
\* pre-set sequence.
C10_Witness ==
    /\ pc = "done" /\ option = Multipart /\ err = Nil /\ r.MultipartForm.set
    /\ DOMAIN Files = {kFile, kFiles}
    /\ Files[kFile] = <<h1, h2>> /\ ptr.v[iFile] = h2 /\ pre.v[iFile] = h0
    /\ Files[kFiles] = <<h1, h2, h3>> /\ ptr.v[iFiles] = <<h0, h1, h2, h3>>

(***************************************************************************)
(* reqconv.Unmarshal (specification SpecRoute).                            *)
(***************************************************************************)
RouteStreams ==
    (kDefault :> {<<s888>>, <<s999>>}) @@
    (kInt :> {<<s233, sabc>>, <<sabc>>}) @@
    (kExtra :> {<<s1>>})

RouteFileStreams == (kFile :> {<<h1>>}) @@ (kInt :> {<<h1>>})

Methods == {"GET", "DELETE", "HEAD", "TRACE", "POST", "PUT", "PATCH", "OPTIONS"}

FormHeaders ==
    { FormHeader, [type |-> "application/x-www-form-urlencoded", params |-> "charset"] }

MultipartHeaders ==
    { MultipartHeader, [type |-> "Multipart/Form-Data", params |-> ""] }

DocumentHeaders ==
    { [type |-> "application/json", params |-> "charset=utf-8"],
      [type |-> "Application/JSON", params |-> ""],
      [type |-> "application/xml", params |-> "charset=utf-8"] }

\* Content types Unmarshal does not support, the absent header among them.
OtherHeaders ==
    { [type |-> "", params |-> ""],
      [type |-> "application/javascript", params |-> ""],
      [type |-> "image/vnd.tencent.tap", params |-> ""],
      [type |-> "application/octet-stream", params |-> ""],
      [type |-> "application/", params |-> ""] }

Failures == {"no", "syntax", "read"}

DocumentBody(kind, doc, bad) ==
    [kind |-> kind, bad |-> bad, values |-> EmptyMap, files |-> EmptyMap,
     doc |-> doc, pos |-> "start"]

\* The fields a JSON or XML document decodes to.
Documents ==
    {EmptyMap, (iInt :> 233) @@ (iDefault :> s888), (iArray :> <<1, 2, 3>>)}

\* The header and the body of a request: a body of the kind its header
\* declares, sound or failing; under a header of no supported type, where
\* no body is ever read, one body.
HeadersAndBodies(n) ==
    {<<h, [FormBody(b) EXCEPT !.bad = bad]>> :
        h \in FormHeaders, b \in Sources(RouteStreams, n), bad \in Failures}
    \cup {<<MultipartHeader, MultipartBody(b, f)>> :
        b \in Sources(RouteStreams, Min(n, 1)), f \in Sources(RouteFileStreams, Min(n, 1))}
    \cup {<<h, [MultipartBody(EmptyMap, EmptyMap) EXCEPT !.bad = bad]>> :
        h \in MultipartHeaders, bad \in {"syntax", "read"}}
    \cup {<<h, DocumentBody(kind, doc, bad)>> :
        h \in DocumentHeaders, kind \in {"json", "xml"}, doc \in Documents, bad \in Failures}
    \cup {<<h, DocumentBody("json", EmptyMap, "no")>> : h \in OtherHeaders}

InitRoute ==
    /\ FieldTag = "json"
    /\ invalidByte = "replaced"
    /\ typ = ParamsType
    /\ \E q \in Sources(RouteStreams, MaxKeys) :
         \E hb \in HeadersAndBodies(MaxKeys - Size(q)) :
           \E m \in Methods :
             r0 = Request(m, q, hb[1], hb[2])
    /\ pre \in {PtrTo(v) : v \in ParamsRecords} \cup {NilPtr}
    /\ option = Body
    /\ r = r0
    /\ ptr = pre
    /\ err = Nil
    /\ pc = "call"
    /\ ptr2 = pre
    /\ err2 = Nil

\* The option Unmarshal binds with, which decides the keys unpack ranges over.
RouteOption(req) ==
    IF req.Method \in NoBodyMethods THEN Query
    ELSE IF ParseMediaType(HeaderOrDefault(req.Header)).mediaType = "multipart/form-data"
    THEN Multipart
    ELSE Body

\* reqconv.Unmarshal(r, ptr)
Route ==
    /\ pc = "call"
    /\ \E o1 \in Orders(ValueKeys(ParseRequest(r, RouteOption(r)), RouteOption(r))) :
         \E o2 \in Orders(FileKeys(ParseRequest(r, RouteOption(r)))) :
           Returns(Unmarshal(r, ptr, typ, FieldTag, o1, o2))
    /\ UNCHANGED <<FieldTag, typ, r0, pre, option, ptr2, err2, invalidByte>>

NextRoute == Route

SpecRoute == InitRoute /\ [][NextRoute]_vars

(***************************************************************************)
(* Properties of Unmarshal (specification SpecRoute).                      *)
(***************************************************************************)
SupportedTypes ==
    {"application/json", "application/xml", "multipart/form-data",
     "application/x-www-form-urlencoded"}

\* The media type the request declares, parameters stripped, in lower case;
\* application/octet-stream when there is no header.
DeclaredType == LowerMediaType(HeaderOrDefault(r0.Header).type)

HeaderIsMalformed == ParseMediaType(HeaderOrDefault(r0.Header)).err # Nil

CarriesBody == r0.Method \notin NoBodyMethods

IsUrlEncoded ==
    CarriesBody /\ ~HeaderIsMalformed /\ DeclaredType = "application/x-www-form-urlencoded"

\* C1: Unmarshal never merges query and body values.  Under GET, DELETE,
\* HEAD or TRACE, whatever the Content-Type and the body, a field whose name
\* is no key of the URL query keeps its value and, when no error is returned,
\* a scalar field whose name is a key of the query holds the query's value.
\* Under another method with a URL-encoded body, a field whose name is no key
\* of the body keeps its value, also when the URL query has the name, and
\* when no error is returned a scalar field whose name is a key of the body
\* of a POST, PUT or PATCH holds the body's value.
C1_QueryOrBodyNeverBoth ==
    pc = "done" =>
        /\ ~CarriesBody =>
             \A i \in 1..Len(typ) :
                 /\ NameOf(i) \notin DOMAIN r0.URL => ptr.v[i] = pre.v[i]
                 /\ (err = Nil /\ IsScalar(i) /\ NameOf(i) \in DOMAIN r0.URL) =>
                        ptr.v[i] = populate(typ[i].Type, pre.v[i], Last(r0.URL[NameOf(i)])).v
        /\ (IsUrlEncoded /\ ~pre.nil) =>
             \A i \in 1..Len(typ) :
                 /\ NameOf(i) \notin DOMAIN r0.Body.values => ptr.v[i] = pre.v[i]
                 /\ (err = Nil /\ IsScalar(i) /\ BodyDefines(NameOf(i))) =>
                        ptr.v[i] = populate(typ[i].Type, pre.v[i],
                                            Last(r0.Body.values[NameOf(i)])).v

\* TestUnmarshal's "POST body+url encode": default only in the URL query,
\* int only in the body.
C1_Witness ==
    /\ pc = "done" /\ err = Nil /\ r0.Method = "POST" /\ IsUrlEncoded
    /\ DOMAIN r0.URL = {kDefault} /\ r0.URL[kDefault] = <<s888>>
    /\ DOMAIN r0.Body.values = {kInt}
    /\ pre.v[iDefault] = s2333 /\ ptr.v[iDefault] = s2333
    /\ pre.v[iInt] = 0 /\ ptr.v[iInt] = 233

\* The request carries a body and declares none of the four media types.
Unsupported == CarriesBody /\ DeclaredType \notin SupportedTypes

\* C2: a request of a method other than GET, DELETE, HEAD, TRACE whose
\* media type is none of the four supported ones, or which has no
\* Content-Type, is answered with an error; the call returns (a nil
\* destination is not dereferenced) and leaves the destination as it was.
C2_UnsupportedTypeFails ==
    (pc # "call" /\ Unsupported) => (pc = "done" /\ err # Nil /\ ptr = pre)

\* TestUnmarshalUnsupportedType's "empty": no Content-Type and a nil ptr.
C2_Witness ==
    /\ pc = "done" /\ Unsupported /\ r0.Method = "POST"
    /\ r0.Header = [type |-> "", params |-> ""]
    /\ pre.nil /\ err # Nil

WrapsBody(e) == e[1].msg = "parse request body as %s: %v"

\* C7 as claimed: every error Unmarshal returns for a lower-level failure
\* (every error but its own "unsupported content type") is wrapped with
\* "parse request body as <type>: ", for every method and content type.
C7_AlwaysWrapped ==
    (pc = "done" /\ err # Nil /\ err[1].msg # "unsupported content type: %s") => WrapsBody(err)

\* C7 amended: under a method other than GET, DELETE, HEAD, TRACE and a
\* well-formed Content-Type of one of the four media types, every error is
\* the lower-level error wrapped with "parse request body as <media type>: ";
\* a malformed Content-Type is returned wrapped with "parse request media
\* type: "; under GET, DELETE, HEAD and TRACE the Binder's error is returned
\* unwrapped.
C7_WrappedByStage ==
    (pc = "done" /\ err # Nil) =>
        /\ ~CarriesBody =>
             err[1].msg \notin {"parse request body as %s: %v", "parse request media type: %v"}
        /\ (CarriesBody /\ HeaderIsMalformed) =>
             (err[1].msg = "parse request media type: %v" /\ Len(err) = 2)
        /\ (CarriesBody /\ ~HeaderIsMalformed /\ DeclaredType \in SupportedTypes) =>
             (WrapsBody(err) /\ err[1].type = DeclaredType /\ Len(err) >= 2
                /\ ~WrapsBody(Tail(err)))

\* A POST of int=abc: the Binder's error for the key, wrapped.
C7_Witness ==
    /\ pc = "done" /\ r0.Method = "POST" /\ IsUrlEncoded
    /\ Len(err) = 3 /\ WrapsBody(err)
    /\ err[2].msg = "%s: %v" /\ err[2].arg = kInt
    /\ err[3].msg = "strconv.ParseInt: invalid syntax"

(***************************************************************************)
(* Binding records of other struct types, under either tag key            *)
(* (specification SpecFields).                                             *)
(***************************************************************************)
kBig == <<"b", "i", "g">>
kBigs == <<"b", "i", "g", "s">>
kCamelCase == <<"c", "a", "m", "e", "l", "C", "a", "s", "e">>
kName == <<"n", "a", "m", "e">>
kAlias == <<"a", "l", "i", "a", "s">>

\* A struct tag with a value under json and one under http.
Tags(json, http) ==
    [k \in TagKeys |-> CASE k = "json" -> json [] k = "http" -> http [] OTHER -> <<>>]

\* A struct with fields of kinds populate has no case for: an int64 and a
\* slice of them.
KindsType ==
    << Field(<<"Q">>, Tags(kQ, kQ), "string"),
       Field(<<"B", "i", "g">>, Tags(kBig, kBig), "int64"),
       Field(<<"B", "i", "g", "s">>, Tags(kBigs, kBigs), "[]int64"),
       Field(<<"I", "n", "t">>, Tags(kInt, kInt), "int") >>

\* The struct of ExampleUnpack, example_test.go:20-27: http tags, and
\* CamelCase without a tag.
ExampleType ==
    << Field(<<"Q">>, Tags(<<>>, kQ), "string"),
       Field(<<"I", "n", "t">>, Tags(<<>>, kInt), "string"),
       Field(<<"F", "l", "o", "a", "t">>, Tags(<<>>, kFloat), "float64"),
       Field(<<"B", "o", "o", "l">>, Tags(<<>>, kBool), "bool"),
       Field(<<"A", "r", "r", "a", "y">>, Tags(<<>>, kArray), "[]int"),
       Field(<<"C", "a", "m", "e", "l", "C", "a", "s", "e">>, Tags(<<>>, <<>>), "int") >>

\* A value other than the zero value, for a field a caller pre-set.
Preset(t) ==
    CASE Kind(t) = "string" -> s2333
      [] Kind(t) = "int" -> 42
      [] Kind(t) = "int64" -> 42
      [] Kind(t) = "bool" -> TRUE
      [] Kind(t) = "float64" -> [m |-> 42, e |-> 0]
      [] Kind(t) = "slice" -> <<7>>

PresetRecord(t) == [i \in 1..Len(t) |-> Preset(t[i].Type)]

\* The letter N with tilde, upper case (U+00D1) and lower case (U+00F1), as
\* the bytes of their UTF-8 encoding.
UpperEnye == <<"0xC3", "0x91">>
LowerEnye == <<"0xC3", "0xB1">>

kEnye == LowerEnye \o <<"a", "m", "e">>
kUpperEnye == UpperEnye \o <<"a", "m", "e">>
kGarbled == RuneError \o <<"0x91", "a", "m", "e">>

\* A struct whose fields share external names: Name has no tag, Alias has
\* json:"name", Third has json:"name" http:"alias"; and a field without a
\* tag whose identifier starts with a letter outside ASCII.
NamesType ==
    << Field(<<"N", "a", "m", "e">>, Tags(<<>>, <<>>), "string"),
       Field(<<"A", "l", "i", "a", "s">>, Tags(kName, <<>>), "int"),
       Field(<<"T", "h", "i", "r", "d">>, Tags(kName, kAlias), "string"),
       Field(kUpperEnye, Tags(<<>>, <<>>), "string") >>

FieldTypes == {KindsType, ExampleType, NamesType}

\* Values of the keys of a source, numerals and others.
FieldStreams ==
    (kQ :> {<<sgolang>>}) @@
    (kInt :> {<<s233>>, <<sabc>>}) @@
    (kBig :> {<<s1, sabc>>, <<sabc>>}) @@
    (kBigs :> {<<s1, s2>>}) @@
    (kCamelCase :> {<<s233>>}) @@
    (kName :> {<<s1, s2>>, <<sabc>>}) @@
    (kAlias :> {<<s7>>, <<sx>>}) @@
    (kEnye :> {<<sx>>}) @@
    (kGarbled :> {<<sx>>}) @@
    (kUpperEnye :> {<<sx>>})

\* A GET whose URL query is the source, bound with Query, or a POST whose
\* body is, bound with Body.
InitFields ==
    /\ FieldTag \in {"json", "http"}
    /\ invalidByte \in {"replaced", "kept"}
    /\ typ \in FieldTypes
    /\ \E s \in Sources(FieldStreams, MaxKeys) :
         \/ /\ option = Query
            /\ r0 = Request("GET", s, FormHeader, FormBody(EmptyMap))
         \/ /\ option = Body
            /\ r0 = Request("POST", EmptyMap, FormHeader, FormBody(s))
    /\ pre \in {PtrTo(ZeroRecord(typ)), PtrTo(PresetRecord(typ))}
    /\ r = r0
    /\ ptr = pre
    /\ err = Nil
    /\ pc = "call"
    /\ ptr2 = pre
    /\ err2 = Nil

SpecFields == InitFields /\ [][Next]_vars

(***************************************************************************)
(* Properties of field kinds (specification SpecFields).                   *)
(***************************************************************************)
\* The types the claim counts as supported: text, integer, boolean, 64-bit
\* float, file-part reference, and the sequences of these.
SupportedKinds ==
    {"string", "int", "bool", "float64", fileHeaderPtrType,
     "[]string", "[]int", "[]bool", "[]float64", "[]*multipart.FileHeader"}

UnsupportedFields == {i \in 1..Len(typ) : typ[i].Type \notin SupportedKinds}

\* The fields of an unsupported type the source has a key for.
KeyedUnsupported ==
    {i \in UnsupportedFields : NameOf(i) \in DOMAIN Source /\ FieldsOf[NameOf(i)] = i}

\* The type populate is called on for a field: the element type of a slice.
PopulatedType(i) ==
    IF Kind(typ[i].Type) = "slice" THEN Elem(typ[i].Type) ELSE typ[i].Type

UnsupportedKindError(e) == Len(e) = 2 /\ e[2].msg = "unsupported kind %s"

\* No key of the source that matches a field of a supported type has a value
\* that fails coercion.
SupportedCannotFail ==
    \A k \in DOMAIN Source :
        (IsValid(FieldsOf, k) /\ FieldsOf[k] \notin UnsupportedFields) =>
            bindValues(typ[FieldsOf[k]].Type, pre.v[FieldsOf[k]], Source[k]).err = Nil

\* C11 as claimed: a bind into a record that declares a field of an
\* unsupported type always fails with an unsupported-kind error, for every
\* value source.
C11_AlwaysFails ==
    (Returned /\ UnsupportedFields # {}) => (err # Nil /\ UnsupportedKindError(err))

\* C11 amended: a bind fails for an unsupported field only when the source
\* has a key for it, and then whatever the values are: the bind ends with
\* an error and the field keeps its pre-call value; the error is the one of
\* the unsupported kind, naming such a key and the type, unless the value
\* of a key of a supported field failed first.  A declared field of an
\* unsupported type the source has no key for causes no error.
C11_FailsWhenKeyed ==
    Returned =>
        /\ \A i \in KeyedUnsupported :
               /\ err # Nil
               /\ ptr.v[i] = pre.v[i]
               /\ err[1].arg = NameOf(i) =>
                      err = <<Frame("%s: %v", NameOf(i), ""),
                              Frame("unsupported kind %s", <<>>, PopulatedType(i))>>
        /\ (KeyedUnsupported # {} /\ SupportedCannotFail) =>
               (UnsupportedKindError(err) /\ err[1].arg \in {NameOf(i) : i \in KeyedUnsupported})
        /\ KeyedUnsupported = {} => (SupportedCannotFail <=> err = Nil)

\* big=1&big=abc fails for the int64 field whether or not the value is a
\* numeral, and leaves the pre-set field alone.
C11_Witness ==
    /\ pc = "done" /\ typ = KindsType /\ DOMAIN Source = {kBig}
    /\ Source[kBig] = <<s1, sabc>>
    /\ pre.v[FieldIndex(KindsType, <<"B", "i", "g">>)] = 42
    /\ ptr.v[FieldIndex(KindsType, <<"B", "i", "g">>)] = 42
    /\ err = <<Frame("%s: %v", kBig, ""), Frame("unsupported kind %s", <<>>, "int64")>>

(***************************************************************************)
(* Properties of the table of fields (specification SpecFields).           *)
(***************************************************************************)
\* An identifier with its first character in lower case and the rest
\* unchanged, the character taken whole.
LowerFirstCharacter(name) ==
    IF name = <<>> THEN <<>>
    ELSE IF Len(name) >= 2 /\ SubSeq(name, 1, 2) = UpperEnye
    THEN LowerEnye \o SubSeq(name, 3, Len(name))
    ELSE <<ToLowerChar(name[1])>> \o Tail(name)

\* The external name C12 gives a field: its tag value under the active tag
\* key when that is not empty, otherwise the identifier with its first
\* character in lower case.
ClaimedName(i) ==
    IF typ[i].Tag[FieldTag] # <<>> THEN typ[i].Tag[FieldTag]
    ELSE LowerFirstCharacter(typ[i].Name)

\* The field latest in declaration order among those a naming gives the
\* name k.
LatestClaimed(k) ==
    CHOOSE i \in 1..Len(typ) :
        ClaimedName(i) = k /\ \A j \in 1..Len(typ) : ClaimedName(j) = k => j <= i

LatestNamed(k) ==
    CHOOSE i \in 1..Len(typ) :
        NameOf(i) = k /\ \A j \in 1..Len(typ) : NameOf(j) = k => j <= i

\* What binding the values of key k leaves in field i.
BoundValue(i, k) == bindValues(typ[i].Type, pre.v[i], Source[k]).v

\* C12 as claimed: every key of the source that is the external name of a
\* field (tag value, or identifier with the first character lower-cased) is
\* bound to the field latest in declaration order with that name, when the
\* bind returns no error, and the earlier fields of that name are never
\* written.
C12_FirstCharacterLowered ==
    Returned =>
        \A k \in DOMAIN Source :
            (\E i \in 1..Len(typ) : ClaimedName(i) = k) =>
                /\ err = Nil => ptr.v[LatestClaimed(k)] = BoundValue(LatestClaimed(k), k)
                /\ \A j \in 1..Len(typ) :
                       (ClaimedName(j) = k /\ j # LatestClaimed(k)) => ptr.v[j] = pre.v[j]

\* C12, what the code does: a field's name is its tag value under the active
\* tag key when that is not empty and otherwise its identifier with the
\* first byte lower-cased, which is the first character only when that is
\* ASCII (CamelCase becomes camelCase); the table maps a name to the field
\* latest in declaration order with that name, which is the one bound, and
\* the earlier fields of that name are never written.  A field whose
\* identifier starts outside ASCII is not bound from the key that is its
\* identifier with the first character lower-cased.
C12_LastFieldBound ==
    Returned =>
        /\ \A k \in DOMAIN Source :
               (\E i \in 1..Len(typ) : NameOf(i) = k) =>
                   /\ FieldsOf[k] = LatestNamed(k)
                   /\ err = Nil => ptr.v[LatestNamed(k)] = BoundValue(LatestNamed(k), k)
                   /\ \A j \in 1..Len(typ) :
                          (NameOf(j) = k /\ j # LatestNamed(k)) => ptr.v[j] = pre.v[j]
        /\ \A i \in 1..Len(typ) :
               /\ typ[i].Tag[FieldTag] # <<>> => NameOf(i) = typ[i].Tag[FieldTag]
               /\ (typ[i].Tag[FieldTag] = <<>> /\ typ[i].Name[1] \notin HighBytes) =>
                      NameOf(i) = LowerFirstCharacter(typ[i].Name)
               /\ (typ[i].Tag[FieldTag] = <<>> /\ typ[i].Name[1] \in HighBytes) =>
                      /\ NameOf(i) # LowerFirstCharacter(typ[i].Name)
                      /\ (DOMAIN Source = {LowerFirstCharacter(typ[i].Name)} /\ pc = "done") =>
                             (err = Nil /\ ptr = pre)
        /\ (typ = ExampleType /\ FieldTag = "http") => NameOf(6) = kCamelCase

\* name=1&name=2 under json: Third, the last of the three fields named
\* "name", is bound; Name and Alias keep what the caller set.
C12_Witness ==
    /\ pc = "done" /\ err = Nil /\ typ = NamesType /\ FieldTag = "json"
    /\ DOMAIN Source = {kName} /\ Source[kName] = <<s1, s2>>
    /\ pre.v = PresetRecord(NamesType)
    /\ ptr.v = [pre.v EXCEPT ![3] = s2]

\* The identifier with a first letter outside ASCII: the key with that
\* letter lower-cased is skipped and the field is left as it was.
C12_NotBound ==
    /\ pc = "done" /\ err = Nil /\ typ = NamesType /\ FieldTag = "json"
    /\ DOMAIN Source = {kEnye} /\ Source[kEnye] = <<sx>>
    /\ ptr = pre

(***************************************************************************)
(* Properties of the request body after Unmarshal (specification           *)
(* SpecRoute).                                                             *)
(***************************************************************************)
\* The call took the JSON or the XML path.
IsDocument ==
    CarriesBody /\ ~HeaderIsMalformed
        /\ DeclaredType \in {"application/json", "application/xml"}

\* C13: on the JSON and XML paths, when the whole body was read, the body
\* the request holds after Unmarshal returned has the bytes it had before
\* the call and is at their start, whether decoding succeeded or failed;
\* nothing else of the request changes.
C13_BodyRestored ==
    (pc = "done" /\ IsDocument /\ r0.Body.bad # "read") =>
        /\ r.Body.pos = "start"
        /\ r.Body = r0.Body
        /\ r = r0

\* A POST of a body that is no JSON document: decoding failed, the error is
\* wrapped, and the body is back at its start.
C13_Witness ==
    /\ pc = "done" /\ IsDocument /\ r0.Method = "POST"
    /\ DeclaredType = "application/json" /\ r0.Body.bad = "syntax"
    /\ err # Nil /\ WrapsBody(err) /\ err[2].msg = "json: syntax error"
    /\ ptr = pre
    /\ r.Body.pos = "start" /\ r.Body = r0.Body

====
